---- MODULE Spec2Model ----
(***************************************************************************)
(* Request observability and error normalisation of the Fastify backend:   *)
(* the requestLogger hooks (src/src/middleware/request-logger.ts), the     *)
(* errorHandler (src/unnamed/part_000, middleware/error-handler.ts) and    *)
(* the wiring of both in server.ts (src/docs/DEVELOPMENT_WORKFLOW.md,      *)
(* lines 418-588).                                                         *)
(*                                                                         *)
(* JavaScript values are modelled by strings and integers.  The value     *)
(* undefined of a string-valued property is the string Undef; an optional  *)
(* array or number carries a flag saying whether the property is there.    *)
(***************************************************************************)
EXTENDS Integers, Sequences, FiniteSets, TLC

(***************************************************************************)
(* Bounds of the model.                                                    *)
(***************************************************************************)
NReq == 2
MaxClock == 2

Reqs == 1..NReq

(***************************************************************************)
(* JavaScript values.                                                      *)
(***************************************************************************)
Undef == "<undefined>"
\* the number read from a statusCode property that is missing or undefined
NoCode == -1

\* ToBoolean of a string-valued property: undefined and '' are falsy
Truthy(s) == s # Undef /\ s # ""
\* ToBoolean of a number-valued property: undefined and 0 are falsy
TruthyNum(n) == n # NoCode /\ n # 0
\* a || b
OrElse(a, b) == IF Truthy(a) THEN a ELSE b

(***************************************************************************)
(* config.NODE_ENV: the three values the zod enum accepts.                 *)
(***************************************************************************)
NodeEnvs == {"development", "production", "test"}

(***************************************************************************)
(* The errors errorHandler can receive (interface CustomError).            *)
(***************************************************************************)
Messages == {Undef, "", "db down", "Rate limit exceeded, retry in 60 seconds"}
Stacks == {Undef, "Error: at handler (routes/users.ts:12:9)"}
StatusCodes == {0, 200, 400, 401, 403, 404, 409, 418, 422, 429, 500, 503}

\* items of err.validation, as ajv and the tests produce them
P1 == [instancePath |-> "/email", schemaPath |-> "#/properties/email/type",
       message |-> "must be string", hasParams |-> TRUE,
       providedValue |-> Undef, allowedValues |-> Undef]
P2 == [instancePath |-> "", schemaPath |-> "#/required",
       message |-> "must have required property 'password'", hasParams |-> FALSE,
       providedValue |-> Undef, allowedValues |-> Undef]
P3 == [instancePath |-> "/role", schemaPath |-> Undef,
       message |-> "must be equal to one of the allowed values", hasParams |-> TRUE,
       providedValue |-> "root", allowedValues |-> "user,admin"]
ValidationLists == {<<>>, <<P1>>, <<P2, P3>>}

\* hasStatusCode is ('statusCode' in err); hasValidation is the truthiness of
\* err.validation (an array, even an empty one, is truthy)
CustomError ==
    { e \in [message : Messages, stack : Stacks,
             hasStatusCode : BOOLEAN, statusCode : StatusCodes \cup {NoCode},
             hasValidation : BOOLEAN, validation : ValidationLists] :
        /\ ~e.hasStatusCode => e.statusCode = NoCode
        /\ ~e.hasValidation => e.validation = <<>> }

NoError == [message |-> Undef, stack |-> Undef, hasStatusCode |-> FALSE,
            statusCode |-> NoCode, hasValidation |-> FALSE, validation |-> <<>>,
            none |-> TRUE]

(***************************************************************************)
(* JavaScript lets a handler throw, or a promise reject with, any value.   *)
(* The values that are no objects: null, undefined and a string.  Reading  *)
(* a property of a string gives undefined.                                 *)
(***************************************************************************)
Primitive(t) ==
    [message |-> Undef, stack |-> Undef, hasStatusCode |-> FALSE,
     statusCode |-> NoCode, hasValidation |-> FALSE, validation |-> <<>>,
     typeof |-> t]

ThrownPrimitives == {Primitive("null"), Primitive("undefined"), Primitive("string")}

ThrownValues == CustomError \cup ThrownPrimitives

typeOf(e) == IF "typeof" \in DOMAIN e THEN e.typeof ELSE "object"

\* err.message, part_000:27: reading a property of null or undefined throws a
\* TypeError
readThrows(e) == typeOf(e) \in {"null", "undefined"}

\* 'statusCode' in err, part_000:58: the in operator throws a TypeError when
\* its right operand is not an object
inThrows(e) == typeOf(e) = "string"

(***************************************************************************)
(* errorHandler: the envelope and the status code, branch by branch.       *)
(***************************************************************************)
Envelope(category, msg) ==
    [error |-> category, message |-> msg, hasDetails |-> FALSE, details |-> <<>>]

\* faulty variant: the schemaPath is preferred to the instancePath
detail_schemaFirst(v) ==
    [field    |-> OrElse(v.schemaPath, v.instancePath),
     message  |-> v.message,
     provided |-> IF v.hasParams THEN v.providedValue ELSE Undef,
     expected |-> IF v.hasParams THEN v.allowedValues ELSE Undef]

\* part_000:48-53, one item of details
detail(v) ==
    [field    |-> OrElse(v.instancePath, v.schemaPath),
     message  |-> v.message,
     provided |-> IF v.hasParams THEN v.providedValue ELSE Undef,
     expected |-> IF v.hasParams THEN v.allowedValues ELSE Undef]

\* part_000:44, if (err.validation)
isValidationError(err) == err.hasValidation

\* part_000:58, if ('statusCode' in err)
isTagged(err) == err.hasStatusCode

\* part_000:45-54
validationReply(err) ==
    [code |-> 400,
     body |-> [error |-> "Validation Error",
               message |-> "Request validation failed",
               hasDetails |-> TRUE,
               details |-> [i \in 1..Len(err.validation) |-> detail(err.validation[i])]]]

\* the category strings of the switch, part_000:60-100
category(S) ==
    CASE S = 400 -> "Bad Request"
      [] S = 401 -> "Unauthorized"
      [] S = 403 -> "Forbidden"
      [] S = 404 -> "Not Found"
      [] S = 409 -> "Conflict"
      [] S = 422 -> "Unprocessable Entity"
      [] S = 429 -> "Too Many Requests"

\* the right-hand sides of err.message || '...', part_000:69-99
defaultMessage(S) ==
    CASE S = 401 -> "Authentication required"
      [] S = 403 -> "Access denied"
      [] S = 404 -> "Resource not found"
      [] S = 409 -> "Resource conflict"
      [] S = 422 -> "Request could not be processed"
      [] S = 429 -> "Rate limit exceeded"

\* faulty variant: the || default dropped from the recognised cases
caseMessage_noDefault(S, err) == err.message

\* message of a recognised case: 400 sends err.message as it is (part_000:63),
\* the others err.message || default
caseMessage(S, err) ==
    IF S = 400 THEN err.message ELSE OrElse(err.message, defaultMessage(S))

RecognisedCodes == {400, 401, 403, 404, 409, 422, 429}

\* faulty variant: the production mask dropped
internalMessage_unmasked(err, nodeEnv) == OrElse(err.message, "Internal server error")

\* part_000:106-109 and 117-120
internalMessage(err, nodeEnv) ==
    IF nodeEnv = "production"
    THEN "Something went wrong"
    ELSE OrElse(err.message, "Internal server error")

\* faulty variant: the default case always answers 500
internalCode_always500(err) == 500

\* part_000:104, err.statusCode || 500
internalCode(err) == IF TruthyNum(err.statusCode) THEN err.statusCode ELSE 500

\* part_000:59-111, the switch
taggedReply(err, nodeEnv) ==
    IF err.statusCode \in RecognisedCodes
    THEN [code |-> err.statusCode,
          body |-> Envelope(category(err.statusCode), caseMessage(err.statusCode, err))]
    ELSE [code |-> internalCode(err),
          body |-> Envelope("Internal Server Error", internalMessage(err, nodeEnv))]

\* faulty variant: the generic branch sends the error's message whatever the environment
genericReply_leaky(err, nodeEnv) ==
    [code |-> 500,
     body |-> Envelope("Internal Server Error", OrElse(err.message, "Internal server error"))]

\* part_000:115-121
genericReply(err, nodeEnv) ==
    [code |-> 500,
     body |-> Envelope("Internal Server Error", internalMessage(err, nodeEnv))]

\* faulty variant: the status code is dispatched on before the validation list is tested
errorReply_statusFirst(err, nodeEnv) ==
    IF isTagged(err) THEN taggedReply(err, nodeEnv)
    ELSE IF isValidationError(err) THEN validationReply(err)
    ELSE genericReply(err, nodeEnv)

\* faulty variant: the generic branch sends the stack trace to the client
errorReply_stack(err, nodeEnv) ==
    IF isValidationError(err) THEN validationReply(err)
    ELSE IF isTagged(err) THEN taggedReply(err, nodeEnv)
    ELSE [code |-> 500, body |-> Envelope("Internal Server Error", OrElse(err.stack, "Something went wrong"))]

\* the status code and body errorHandler passes to reply.code and reply.send
errorReply(err, nodeEnv) ==
    IF isValidationError(err) THEN validationReply(err)
    ELSE IF isTagged(err) THEN taggedReply(err, nodeEnv)
    ELSE genericReply(err, nodeEnv)

\* the calls errorHandler makes on the reply: every branch is
\* return reply.code(...).send(...), part_000:45, 61-104, 115
replyCalls(err) ==
    IF isValidationError(err) THEN <<"reply.code", "reply.send">>
    ELSE IF isTagged(err) THEN <<"reply.code", "reply.send">>
    ELSE <<"reply.code", "reply.send">>

(***************************************************************************)
(* Math.random().toString(36).substr(2, 9), request-logger.ts:13.  The     *)
(* draws are given by their base-36 rendering: 0 renders as "0", and a     *)
(* draw with a long expansion is cut after nine digits.                    *)
(***************************************************************************)
MathRandom == {"0", "0.4fzyo82mvyr"}

substr_2_9(s) ==
    CASE s = "0" -> ""
      [] s = "0.4fzyo82mvyr" -> "4fzyo82mv"

(***************************************************************************)
(* The errors the routes, the schema validation and the rate limiter       *)
(* raise while a request is handled.                                       *)
(***************************************************************************)
Err(msg, stk, hasSc, sc, hasV, v) ==
    [message |-> msg, stack |-> stk, hasStatusCode |-> hasSc, statusCode |-> sc,
     hasValidation |-> hasV, validation |-> v]

RouteErrors ==
    { Err("db down", "Error: at handler (routes/users.ts:12:9)", FALSE, NoCode, FALSE, <<>>),
      Err("", Undef, TRUE, 404, FALSE, <<>>),
      Err("db down", Undef, TRUE, 400, TRUE, <<P1>>) }

(***************************************************************************)
(* The config module: config/index.ts.  An environment variable is a       *)
(* string, written as the sequence of its characters, or is not set.       *)
(***************************************************************************)
Unset == <<"<undefined>">>

DigitChars == {"0", "1", "2", "3", "4", "5", "6", "7", "8", "9"}

Digit(c) ==
    CASE c = "0" -> 0 [] c = "1" -> 1 [] c = "2" -> 2 [] c = "3" -> 3 [] c = "4" -> 4
      [] c = "5" -> 5 [] c = "6" -> 6 [] c = "7" -> 7 [] c = "8" -> 8 [] c = "9" -> 9

IsDigits(s) == s # <<>> /\ \A i \in DOMAIN s : s[i] \in DigitChars

RECURSIVE DecValue(_)
DecValue(s) ==
    IF s = <<>> THEN 0
    ELSE DecValue(SubSeq(s, 1, Len(s) - 1)) * 10 + Digit(s[Len(s)])

\* a JavaScript number: NaN, or an integer
NaN == [nan |-> TRUE, value |-> 0]
Num(n) == [nan |-> FALSE, value |-> n]

\* Number(string): the empty string is 0, a decimal literal with an optional
\* sign is its value, any other text is NaN
Number(s) ==
    IF s = <<>> THEN Num(0)
    ELSE IF IsDigits(s) THEN Num(DecValue(s))
    ELSE IF Head(s) = "-" /\ IsDigits(Tail(s)) THEN Num(0 - DecValue(Tail(s)))
    ELSE IF Head(s) = "+" /\ IsDigits(Tail(s)) THEN Num(DecValue(Tail(s)))
    ELSE NaN

\* the defaults of envSchema
DefaultPort == <<"3", "0", "0", "0">>
DefaultMaxRequests == <<"1", "0", "0">>
DefaultWindowMs == <<"9", "0", "0", "0", "0", "0">>

\* z.string().transform(Number).default(d): the default replaces a variable
\* that is not set; the string is converted and not checked further
numberField(v, d) == [ok |-> TRUE, value |-> Number(IF v = Unset THEN d ELSE v)]

\* z.string().url() and z.string().min(32), both required
ValidUrl == <<"p", "g", ":", "/", "/", "h", "/", "d">>
isUrl(v) == v = ValidUrl
SecretMin == 32

\* envSchema.parse(process.env), lines 8-40, and the config object, 42-57
ZodError == [status |-> "rejected"]

parseEnv(pe) ==
    LET nodeEnv == IF pe.NODE_ENV = Undef THEN "development" ELSE pe.NODE_ENV
        port    == numberField(pe.PORT, DefaultPort)
        max     == numberField(pe.RATE_LIMIT_MAX_REQUESTS, DefaultMaxRequests)
        window  == numberField(pe.RATE_LIMIT_WINDOW_MS, DefaultWindowMs)
    IN  IF /\ nodeEnv \in NodeEnvs
           /\ port.ok /\ max.ok /\ window.ok
           /\ pe.DATABASE_URL # Unset /\ isUrl(pe.DATABASE_URL)
           /\ pe.JWT_SECRET # Unset /\ Len(pe.JWT_SECRET) >= SecretMin
        THEN [status |-> "loaded",
              NODE_ENV |-> nodeEnv,
              PORT |-> port.value,
              RATE_LIMIT_MAX_REQUESTS |-> max.value,
              RATE_LIMIT_WINDOW_MS |-> window.value]
        ELSE ZodError

\* the environments the process is started with
ProcessEnvs ==
    [NODE_ENV : {Undef, "production", "staging"},
     PORT : {Unset, <<"8", "0">>, <<"0">>, <<"-", "1">>, <<"a", "b", "c">>, <<>>},
     RATE_LIMIT_MAX_REQUESTS : {Unset, <<"5">>, <<"0">>, <<"-", "5">>},
     RATE_LIMIT_WINDOW_MS : {Unset, <<"0">>},
     DATABASE_URL : {Unset, ValidUrl},
     JWT_SECRET : {[i \in 1..32 |-> "s"], [i \in 1..8 |-> "s"]}]

\* the environment of a process whose config has NODE_ENV e and the defaults
EnvOf(e) ==
    [NODE_ENV |-> e, PORT |-> Unset, RATE_LIMIT_MAX_REQUESTS |-> Unset,
     RATE_LIMIT_WINDOW_MS |-> Unset, DATABASE_URL |-> ValidUrl,
     JWT_SECRET |-> [i \in 1..32 |-> "s"]]

NotLoaded == [status |-> "unloaded"]

(***************************************************************************)
(* State.                                                                  *)
(***************************************************************************)
VARIABLES
    env,        \* config.NODE_ENV, fixed when the config module is loaded
    clock,      \* what Date.now() returns
    pc,         \* the lifecycle stage of each request
    request,    \* the fields the tracer adds to the request: requestId, startTime
    header,     \* the X-Request-ID header of each reply
    error,      \* the error raised while handling each request
    reply,      \* statusCode, body and calls made on each reply
    log,        \* the logger sink: the events in the order they were emitted
    inbound,    \* the route and the parsed body of each request, once routed
    processEnv, \* process.env
    config,     \* the config object exported by the config module
    prisma,     \* the database client: "connected" or "disconnected"
    proc        \* the process: the state of app, the signal handlers, the exit code

vars == <<env, clock, pc, request, header, error, reply, log, inbound,
          processEnv, config, prisma, proc>>

NoBody == [none |-> TRUE]

\* a fresh FastifyReply: statusCode 200, nothing sent
NewReply == [statusCode |-> 200, body |-> NoBody, calls |-> <<>>, flushed |-> FALSE]

\* the process after start(): the server listens, no signal was received
MaxSignals == 2
NoExit == -1
Running == [app |-> "open", handler |-> [k \in 1..MaxSignals |-> "idle"], exitCode |-> NoExit]

\* a request that no route schema has been applied to
NoInbound == [route |-> "none"]

\* a request before any hook ran: startTime 0 stands for a missing startTime
NewRequest == [requestId |-> Undef, startTime |-> 0]

Stages == {"new", "onRequest", "handler", "preHandler", "onError", "errorHandler",
           "send", "onResponse", "done", "threw"}

TypeOK ==
    /\ env \in NodeEnvs
    /\ clock \in 1..MaxClock
    /\ pc \in [Reqs -> Stages]
    /\ \A r \in Reqs : request[r].startTime \in 0..MaxClock
    /\ \A r \in Reqs : error[r] = NoError \/ error[r] \in ThrownValues \/ error[r].hasValidation
    /\ \A r \in Reqs : inbound[r] = NoInbound \/ inbound[r].route \in {"POST /api/auth/login", "POST /api/auth/register", "PATCH /api/users/:id", "GET /api/users/:id", "GET /health/detailed"}
    /\ config.status \in {"unloaded", "loaded", "rejected"}
    /\ prisma \in {"connected", "disconnected"}
    /\ proc.app \in {"open", "closing", "closed", "failed"}
    /\ proc.exitCode \in {NoExit, 0, 1}

Init ==
    /\ env \in NodeEnvs
    /\ clock = 1
    /\ pc = [r \in Reqs |-> "new"]
    /\ request = [r \in Reqs |-> NewRequest]
    /\ header = [r \in Reqs |-> Undef]
    /\ error = [r \in Reqs |-> NoError]
    /\ reply = [r \in Reqs |-> NewReply]
    /\ log = <<>>
    /\ inbound = [r \in Reqs |-> NoInbound]
    /\ processEnv = EnvOf(env)
    /\ config = parseEnv(EnvOf(env))
    /\ prisma = "disconnected"
    /\ proc = Running

(***************************************************************************)
(* The clock.  Date.now() reads the wall clock of the system, which is not *)
(* monotonic: it advances, and an adjustment of the system time (NTP, an   *)
(* operator) sets it back.                                                 *)
(***************************************************************************)
Tick ==
    /\ \E t \in 1..MaxClock : t # clock /\ clock' = t
    /\ UNCHANGED <<processEnv, config, prisma, proc, inbound, env, pc, request, header, error, reply, log>>

\* Date.now() - (request.startTime || Date.now()), request-logger.ts:42 and 64
duration(req, now) == now - (IF TruthyNum(req.startTime) THEN req.startTime ELSE now)

\* `${duration}ms`
ms(d) == <<d, "ms">>

(***************************************************************************)
(* The framework routes a request and starts its lifecycle.                *)
(***************************************************************************)
Arrive(r) ==
    /\ pc[r] = "new"
    /\ pc' = [pc EXCEPT ![r] = "onRequest"]
    /\ UNCHANGED <<processEnv, config, prisma, proc, inbound, env, clock, request, header, error, reply, log>>

\* faulty variant: requestId and startTime are kept in one place shared by
\* all requests instead of on the request
onRequest_shared(r) ==
    /\ pc[r] = "onRequest"
    /\ \E rnd \in MathRandom :
         LET requestId == substr_2_9(rnd) IN
         /\ request' = [q \in Reqs |-> [requestId |-> requestId, startTime |-> clock]]
         /\ header' = [header EXCEPT ![r] = requestId]
         /\ log' = Append(log, [level |-> "info", message |-> "Incoming request",
                                req |-> r, requestId |-> requestId])
    /\ pc' = [pc EXCEPT ![r] = "handler"]
    /\ UNCHANGED <<processEnv, config, prisma, proc, inbound, env, clock, error, reply>>

\* faulty variant: the hook tags the request and forgets the log call
onRequest_silent(r) ==
    /\ pc[r] = "onRequest"
    /\ \E rnd \in MathRandom :
         /\ request' = [request EXCEPT ![r] = [requestId |-> substr_2_9(rnd), startTime |-> clock]]
         /\ header' = [header EXCEPT ![r] = substr_2_9(rnd)]
    /\ pc' = [pc EXCEPT ![r] = "handler"]
    /\ UNCHANGED <<processEnv, config, prisma, proc, inbound, env, clock, error, reply, log>>

(***************************************************************************)
(* requestLogger, the onRequest hook: request-logger.ts:6-34.              *)
(***************************************************************************)
onRequest(r) ==
    /\ pc[r] = "onRequest"
    /\ \E rnd \in MathRandom :
         LET requestId == substr_2_9(rnd) IN
         /\ request' = [request EXCEPT ![r] = [requestId |-> requestId, startTime |-> clock]]
         /\ header' = [header EXCEPT ![r] = requestId]
         /\ log' = Append(log, [level |-> "info", message |-> "Incoming request",
                                req |-> r, requestId |-> requestId])
    /\ pc' = [pc EXCEPT ![r] = "handler"]
    /\ UNCHANGED <<processEnv, config, prisma, proc, inbound, env, clock, error, reply>>

(***************************************************************************)
(* The route handler returns a payload, or handling raises an error.       *)
(***************************************************************************)
handlerReturn(r) ==
    /\ pc[r] = "handler"
    /\ \E code \in {200, 201} :
         reply' = [reply EXCEPT ![r] =
                     [@ EXCEPT !.statusCode = code, !.body = [success |-> TRUE]]]
    /\ pc' = [pc EXCEPT ![r] = "send"]
    /\ UNCHANGED <<processEnv, config, prisma, proc, inbound, env, clock, request, header, error, log>>

handlerThrow(r) ==
    /\ pc[r] = "handler"
    /\ \E e \in RouteErrors : error' = [error EXCEPT ![r] = e]
    /\ pc' = [pc EXCEPT ![r] = "onError"]
    /\ UNCHANGED <<processEnv, config, prisma, proc, inbound, env, clock, request, header, reply, log>>

\* faulty variant: the hook forgets the log call
onError_silent(r) ==
    /\ pc[r] = "onError"
    /\ pc' = [pc EXCEPT ![r] = "errorHandler"]
    /\ UNCHANGED <<processEnv, config, prisma, proc, inbound, env, clock, request, header, error, reply, log>>

\* faulty variant: the hook also sets the status of the response
onError_setsStatus(r) ==
    /\ pc[r] = "onError"
    /\ log' = Append(log, [level |-> "error", message |-> "Request failed",
                           req |-> r, requestId |-> request[r].requestId,
                           error |-> [message |-> error[r].message,
                                      stack |-> error[r].stack,
                                      statusCode |-> error[r].statusCode],
                           duration |-> ms(duration(request[r], clock))])
    /\ reply' = [reply EXCEPT ![r].statusCode = 500]
    /\ pc' = [pc EXCEPT ![r] = "errorHandler"]
    /\ UNCHANGED <<processEnv, config, prisma, proc, inbound, env, clock, request, header, error>>

(***************************************************************************)
(* requestLogger, the onError hook: request-logger.ts:57-81.  Fastify runs *)
(* the onError hooks before the error handler set by setErrorHandler.      *)
(***************************************************************************)
onError(r) ==
    /\ pc[r] = "onError"
    /\ log' = Append(log, [level |-> "error", message |-> "Request failed",
                           req |-> r, requestId |-> request[r].requestId,
                           error |-> [message |-> error[r].message,
                                      stack |-> error[r].stack,
                                      statusCode |-> error[r].statusCode],
                           duration |-> ms(duration(request[r], clock))])
    /\ pc' = [pc EXCEPT ![r] = "errorHandler"]
    /\ UNCHANGED <<processEnv, config, prisma, proc, inbound, env, clock, request, header, error, reply>>

(***************************************************************************)
(* errorHandler: part_000:16-122.  logger.error first, then                *)
(* reply.code(...).send(...).                                              *)
(***************************************************************************)
requestError(r, err) ==
    [level |-> "error", message |-> "Request error", req |-> r,
     error |-> [message |-> err.message, stack |-> err.stack,
                statusCode |-> err.statusCode,
                hasValidation |-> err.hasValidation, validation |-> err.validation]]

\* faulty variant: the environment is read from process.env at each call
errorHandler_processEnv(r) ==
    /\ pc[r] = "errorHandler"
    /\ IF readThrows(error[r])
       THEN /\ log' = log
            /\ reply' = reply
            /\ pc' = [pc EXCEPT ![r] = "threw"]
       ELSE IF inThrows(error[r])
       THEN /\ log' = Append(log, requestError(r, error[r]))
            /\ reply' = [reply EXCEPT ![r].calls = @ \o <<"logger.error">>]
            /\ pc' = [pc EXCEPT ![r] = "threw"]
       ELSE /\ log' = Append(log, requestError(r, error[r]))
            /\ LET out == errorReply(error[r], processEnv.NODE_ENV) IN
                 reply' = [reply EXCEPT ![r] =
                             [@ EXCEPT !.statusCode = out.code, !.body = out.body,
                                       !.calls = @ \o <<"logger.error">> \o replyCalls(error[r])]]
            /\ pc' = [pc EXCEPT ![r] = "send"]
    /\ UNCHANGED <<processEnv, config, prisma, proc, inbound, env, clock, request, header, error>>

\* faulty variant: the answer depends on earlier requests (after a first
\* 'Request error' every error is answered as an untagged one in production)
errorHandler_stateful(r) ==
    /\ pc[r] = "errorHandler"
    /\ IF readThrows(error[r])
       THEN /\ log' = log
            /\ reply' = reply
            /\ pc' = [pc EXCEPT ![r] = "threw"]
       ELSE IF inThrows(error[r])
       THEN /\ log' = Append(log, requestError(r, error[r]))
            /\ reply' = [reply EXCEPT ![r].calls = @ \o <<"logger.error">>]
            /\ pc' = [pc EXCEPT ![r] = "threw"]
       ELSE /\ log' = Append(log, requestError(r, error[r]))
            /\ LET seen == \E i \in DOMAIN log : log[i].message = "Request error"
                   out  == IF seen THEN genericReply(error[r], "production")
                                   ELSE errorReply(error[r], env) IN
                 reply' = [reply EXCEPT ![r] =
                             [@ EXCEPT !.statusCode = out.code, !.body = out.body,
                                       !.calls = @ \o <<"logger.error">> \o replyCalls(error[r])]]
            /\ pc' = [pc EXCEPT ![r] = "send"]
    /\ UNCHANGED <<processEnv, config, prisma, proc, inbound, env, clock, request, header, error>>

errorHandler(r) ==
    /\ pc[r] = "errorHandler"
    /\ IF readThrows(error[r])
       THEN \* the TypeError is raised while the argument of logger.error is built
            /\ log' = log
            /\ reply' = reply
            /\ pc' = [pc EXCEPT ![r] = "threw"]
       ELSE IF inThrows(error[r])
       THEN \* logged, then the TypeError is raised by the in operator
            /\ log' = Append(log, requestError(r, error[r]))
            /\ reply' = [reply EXCEPT ![r].calls = @ \o <<"logger.error">>]
            /\ pc' = [pc EXCEPT ![r] = "threw"]
       ELSE /\ log' = Append(log, requestError(r, error[r]))
            /\ LET out == errorReply(error[r], env) IN
                 reply' = [reply EXCEPT ![r] =
                             [@ EXCEPT !.statusCode = out.code, !.body = out.body,
                                       !.calls = @ \o <<"logger.error">> \o replyCalls(error[r])]]
            /\ pc' = [pc EXCEPT ![r] = "send"]
    /\ UNCHANGED <<processEnv, config, prisma, proc, inbound, env, clock, request, header, error>>

(***************************************************************************)
(* The framework serialises the payload and writes the response to the     *)
(* transport.                                                              *)
(***************************************************************************)
Flush(r) ==
    /\ pc[r] = "send"
    /\ reply' = [reply EXCEPT ![r].flushed = TRUE]
    /\ pc' = [pc EXCEPT ![r] = "onResponse"]
    /\ UNCHANGED <<processEnv, config, prisma, proc, inbound, env, clock, request, header, error, log>>

\* faulty variant: the hook logs only when handling raised no error
onResponse_onlyOnSuccess(r) ==
    /\ pc[r] = "onResponse"
    /\ log' = IF error[r] = NoError
              THEN Append(log, [level |-> "info", message |-> "Request completed",
                                req |-> r, requestId |-> request[r].requestId,
                                statusCode |-> reply[r].statusCode,
                                duration |-> ms(duration(request[r], clock))])
              ELSE log
    /\ pc' = [pc EXCEPT ![r] = "done"]
    /\ UNCHANGED <<processEnv, config, prisma, proc, inbound, env, clock, request, header, error, reply>>

(***************************************************************************)
(* requestLogger, the onResponse hook: request-logger.ts:36-55.  Fastify   *)
(* runs the onResponse hooks once the response has been sent, on the       *)
(* success path and on the error path alike.                               *)
(***************************************************************************)
onResponse(r) ==
    /\ pc[r] = "onResponse"
    /\ log' = Append(log, [level |-> "info", message |-> "Request completed",
                           req |-> r, requestId |-> request[r].requestId,
                           statusCode |-> reply[r].statusCode,
                           duration |-> ms(duration(request[r], clock))])
    /\ pc' = [pc EXCEPT ![r] = "done"]
    /\ UNCHANGED <<processEnv, config, prisma, proc, inbound, env, clock, request, header, error, reply>>

(***************************************************************************)
(* The request lifecycle with the requestLogger hooks in the scope of the  *)
(* route.                                                                  *)
(***************************************************************************)
Next ==
    \/ Tick
    \/ \E r \in Reqs :
         \/ Arrive(r)
         \/ onRequest(r)
         \/ handlerReturn(r)
         \/ handlerThrow(r)
         \/ onError(r)
         \/ errorHandler(r)
         \/ Flush(r)
         \/ onResponse(r)

Spec == Init /\ [][Next]_vars

(***************************************************************************)
(* errorHandler called on its own with any error, as the unit tests of     *)
(* part_003 call it: errorHandler(error, mockRequest, mockReply).          *)
(***************************************************************************)
HandlerInit ==
    /\ env \in NodeEnvs
    /\ clock = 1
    /\ pc = [r \in Reqs |-> IF r = 1 THEN "errorHandler" ELSE "done"]
    /\ request = [r \in Reqs |-> NewRequest]
    /\ header = [r \in Reqs |-> Undef]
    /\ error \in {[r \in Reqs |-> IF r = 1 THEN e ELSE NoError] : e \in ThrownValues}
    /\ reply = [r \in Reqs |-> NewReply]
    /\ log = <<>>
    /\ inbound = [r \in Reqs |-> NoInbound]
    /\ processEnv = EnvOf(env)
    /\ config = parseEnv(EnvOf(env))
    /\ prisma = "disconnected"
    /\ proc = Running

HandlerNext == \E r \in Reqs : errorHandler(r)

HandlerSpec == HandlerInit /\ [][HandlerNext]_vars

(***************************************************************************)
(* Properties of errorHandler.                                             *)
(***************************************************************************)
\* errorHandler has answered request r
Handled(r) == error[r] # NoError /\ pc[r] \in {"send", "onResponse", "done"}

\* the table of section 4.2 of the specification
SpecCategory(S) ==
    CASE S = 400 -> "Bad Request"
      [] S = 401 -> "Unauthorized"
      [] S = 403 -> "Forbidden"
      [] S = 404 -> "Not Found"
      [] S = 409 -> "Conflict"
      [] S = 422 -> "Unprocessable Entity"
      [] S = 429 -> "Too Many Requests"

SpecDefault(S) ==
    CASE S = 401 -> "Authentication required"
      [] S = 403 -> "Access denied"
      [] S = 404 -> "Resource not found"
      [] S = 409 -> "Resource conflict"
      [] S = 422 -> "Request could not be processed"
      [] S = 429 -> "Rate limit exceeded"

SpecCodes == {400, 401, 403, 404, 409, 422, 429}

\* the error reaches the 500 branch: no validation list, and a statusCode that
\* is 500, unrecognised, or missing
Reaches500Branch(e) ==
    ~e.hasValidation /\ (~e.hasStatusCode \/ e.statusCode \notin SpecCodes)

\* every string of a response body
BodyStrings(b) ==
    {b.error, b.message}
      \cup {b.details[i].field : i \in DOMAIN b.details}
      \cup {b.details[i].message : i \in DOMAIN b.details}
      \cup {b.details[i].provided : i \in DOMAIN b.details}
      \cup {b.details[i].expected : i \in DOMAIN b.details}

\* the body shows the text t of the error
Shows(b, t) == Truthy(t) /\ t \in BodyStrings(b)

\* C1: an error without validation list tagged with S in
\* {400,401,403,404,409,422,429} is answered with status S and the category of
\* S; the message is the error's message when that is non-empty and otherwise
\* the default of S (400 has no default and sends the message it was given).
C1_RecognisedCodes ==
    \A r \in Reqs :
      LET e == error[r] IN
      (Handled(r) /\ ~e.hasValidation /\ e.hasStatusCode /\ e.statusCode \in SpecCodes)
        => /\ reply[r].statusCode = e.statusCode
           /\ reply[r].body.error = SpecCategory(e.statusCode)
           /\ Truthy(e.message) => reply[r].body.message = e.message
           /\ (~Truthy(e.message) /\ e.statusCode # 400)
                => reply[r].body.message = SpecDefault(e.statusCode)
           /\ (~Truthy(e.message) /\ e.statusCode = 400)
                => reply[r].body.message = e.message

C1_Witness ==
    \E r \in Reqs :
      /\ Handled(r) /\ ~error[r].hasValidation
      /\ error[r].statusCode = 404 /\ error[r].message = ""
      /\ reply[r].statusCode = 404
      /\ reply[r].body.message = "Resource not found"

\* C2: an error with a non-empty validation list is answered with status 400,
\* error 'Validation Error' and message 'Request validation failed', whatever
\* statusCode it also carries.
C2_ValidationFirst ==
    \A r \in Reqs :
      (Handled(r) /\ error[r].hasValidation /\ error[r].validation # <<>>)
        => /\ reply[r].statusCode = 400
           /\ reply[r].body.error = "Validation Error"
           /\ reply[r].body.message = "Request validation failed"

C2_Witness ==
    \E r \in Reqs :
      /\ Handled(r) /\ error[r].validation # <<>>
      /\ error[r].hasStatusCode /\ error[r].statusCode = 404
      /\ reply[r].statusCode = 400

\* C3 as stated: in the 500 branch the message is 'Something went wrong' in
\* production and the error's own message otherwise.
C3_Original ==
    \A r \in Reqs :
      (Handled(r) /\ Reaches500Branch(error[r]))
        => reply[r].body.message =
             (IF env = "production" THEN "Something went wrong" ELSE error[r].message)

\* C3 amended: in the 500 branch the message is 'Something went wrong' in
\* production; otherwise it is the error's own message when that is non-empty
\* and 'Internal server error' when it is empty or missing.  An error with no
\* statusCode and one tagged 500 both get status 500 and the same envelope.
C3_InternalMessage ==
    \A r \in Reqs :
      LET e == error[r] IN
      (Handled(r) /\ Reaches500Branch(e))
        => /\ reply[r].body.error = "Internal Server Error"
           /\ ~reply[r].body.hasDetails
           /\ reply[r].body.message =
                (IF env = "production" THEN "Something went wrong"
                 ELSE IF Truthy(e.message) THEN e.message
                 ELSE "Internal server error")
           /\ (~e.hasStatusCode \/ e.statusCode = 500) => reply[r].statusCode = 500

C3_Witness ==
    \E r \in Reqs :
      /\ Handled(r) /\ Reaches500Branch(error[r]) /\ ~error[r].hasStatusCode
      /\ env # "production" /\ error[r].message = ""
      /\ reply[r].body.message = "Internal server error"

\* C4 as stated: every error with no status code is answered with status 500,
\* and in production the body does not show the error's message.
C4_Original ==
    \A r \in Reqs :
      (Handled(r) /\ ~error[r].hasStatusCode)
        => /\ reply[r].statusCode = 500
           /\ env = "production" => ~Shows(reply[r].body, error[r].message)

\* C4 amended: every error with no status code and no validation list is
\* answered with status 500; for every error with no status code, in
\* production the body does not show the error's message and is the body sent
\* for the same error with any other message.
C4_UntaggedIs500 ==
    \A r \in Reqs :
      LET e == error[r] IN
      (Handled(r) /\ ~e.hasStatusCode)
        => /\ ~e.hasValidation => reply[r].statusCode = 500
           /\ env = "production" =>
                /\ ~Shows(reply[r].body, e.message)
                /\ \A m \in Messages :
                     errorReply([e EXCEPT !.message = m], env).body = reply[r].body

C4_Witness ==
    \E r \in Reqs :
      /\ Handled(r) /\ ~error[r].hasStatusCode /\ ~error[r].hasValidation
      /\ env = "production" /\ error[r].message = "db down"
      /\ reply[r].statusCode = 500
      /\ reply[r].body.message = "Something went wrong"

\* C5 as stated: in production no body shows the error's message or its stack,
\* whatever the classification of the error.
C5_Original ==
    \A r \in Reqs :
      (Handled(r) /\ env = "production")
        => /\ ~Shows(reply[r].body, error[r].message)
           /\ ~Shows(reply[r].body, error[r].stack)

\* C5 amended: in production no body shows the stack, and a body shows the
\* error's message only when the error has no validation list and is tagged
\* 400, 401, 403, 404, 409, 422 or 429 (these send err.message in every
\* environment); the 'Request error' log event carries message and stack.
C5_ProductionMask ==
    \A r \in Reqs :
      LET e == error[r] IN
      (Handled(r) /\ env = "production")
        => /\ ~Shows(reply[r].body, e.stack)
           /\ Shows(reply[r].body, e.message)
                => (~e.hasValidation /\ e.hasStatusCode /\ e.statusCode \in SpecCodes)
           /\ \E i \in DOMAIN log :
                /\ log[i].message = "Request error" /\ log[i].req = r
                /\ log[i].error.message = e.message
                /\ log[i].error.stack = e.stack

C5_Witness ==
    \E r \in Reqs :
      /\ Handled(r) /\ env = "production"
      /\ error[r].hasStatusCode /\ error[r].statusCode = 418
      /\ error[r].message = "db down" /\ Truthy(error[r].stack)
      /\ reply[r].body.message = "Something went wrong"

\* C8 as stated: an error without validation list tagged with a status code
\* outside {400,401,403,404,409,422,429,500} is answered with that same code
\* and error 'Internal Server Error'.
C8_Original ==
    \A r \in Reqs :
      LET e == error[r] IN
      (Handled(r) /\ ~e.hasValidation /\ e.hasStatusCode
         /\ e.statusCode # NoCode /\ e.statusCode \notin SpecCodes \cup {500})
        => /\ reply[r].statusCode = e.statusCode
           /\ reply[r].body.error = "Internal Server Error"

\* C8 amended: such an error is answered with that same code when the code is
\* not 0 and with 500 when it is 0 (err.statusCode || 500); the error field is
\* 'Internal Server Error' in both cases.
C8_UnrecognisedCode ==
    \A r \in Reqs :
      LET e == error[r] IN
      (Handled(r) /\ ~e.hasValidation /\ e.hasStatusCode
         /\ e.statusCode # NoCode /\ e.statusCode \notin SpecCodes \cup {500})
        => /\ e.statusCode # 0 => reply[r].statusCode = e.statusCode
           /\ e.statusCode = 0 => reply[r].statusCode = 500
           /\ reply[r].body.error = "Internal Server Error"

C8_Witness ==
    \E r \in Reqs :
      /\ Handled(r) /\ ~error[r].hasValidation
      /\ error[r].hasStatusCode /\ error[r].statusCode = 418
      /\ reply[r].statusCode = 418
      /\ reply[r].body.error = "Internal Server Error"

(***************************************************************************)
(* The server as server.ts wires it.  requestLogger is a plain async       *)
(* function registered with app.register(requestLogger) (server.ts, line   *)
(* 478 of DEVELOPMENT_WORKFLOW.md) and is not wrapped with fastify-plugin, *)
(* so Fastify gives it an encapsulation context of its own: the hooks it   *)
(* adds belong to that context.  The routes are registered in sibling      *)
(* contexts (lines 531-535), so none of the three hooks is in the hook     *)
(* list of any route of the server, and the lifecycle passes each hook     *)
(* stage without calling them.                                             *)
(***************************************************************************)
OutOfScope(r) ==
    /\ pc[r] \in {"onRequest", "onError", "onResponse"}
    /\ pc' = [pc EXCEPT ![r] = CASE pc[r] = "onRequest" -> "handler"
                                 [] pc[r] = "onError" -> "errorHandler"
                                 [] pc[r] = "onResponse" -> "done"]
    /\ UNCHANGED <<processEnv, config, prisma, proc, inbound, env, clock, request, header, error, reply, log>>

\* what errorResponseBuilder returns and @fastify/rate-limit throws
RateLimitError ==
    Err("Rate limit exceeded, retry in 60 seconds", Undef, TRUE, 429, FALSE, <<>>)

\* the rate limiter rejects the request before its handler runs
rateLimit(r) ==
    /\ pc[r] = "handler"
    /\ error' = [error EXCEPT ![r] = RateLimitError]
    /\ pc' = [pc EXCEPT ![r] = "onError"]
    /\ UNCHANGED <<processEnv, config, prisma, proc, inbound, env, clock, request, header, reply, log>>

ServerNext ==
    \/ Tick
    \/ \E r \in Reqs :
         \/ Arrive(r)
         \/ OutOfScope(r)
         \/ rateLimit(r)
         \/ handlerReturn(r)
         \/ handlerThrow(r)
         \/ errorHandler(r)
         \/ Flush(r)

ServerSpec == Init /\ [][ServerNext]_vars

(***************************************************************************)
(* The routes with a body schema: routes/auth.ts and routes/users.ts.      *)
(* A string is a sequence of characters.  A body is a record of the        *)
(* properties it has.                                                      *)
(***************************************************************************)
NoMax == -1

Login == "POST /api/auth/login"
Register == "POST /api/auth/register"
Update == "PATCH /api/users/:id"
GetUser == "GET /api/users/:id"
HealthDetailed == "GET /health/detailed"
Routes == {Login, Register, Update, GetUser, HealthDetailed}

\* string constraints of one property: format, minLength, maxLength
Prop(fmt, min, max) == [format |-> fmt, minLength |-> min, maxLength |-> max]

\* schema.body of each route
bodySchema(route) ==
    CASE route = Login ->
           [required |-> <<"email", "password">>,
            properties |-> [email |-> Prop("email", 0, NoMax),
                            password |-> Prop("none", 6, NoMax)]]
      [] route = Register ->
           [required |-> <<"email", "username", "password">>,
            properties |-> [email |-> Prop("email", 0, NoMax),
                            username |-> Prop("none", 3, 30),
                            password |-> Prop("none", 6, NoMax)]]
      [] route = Update ->
           [required |-> <<>>,
            properties |-> [email |-> Prop("email", 0, NoMax),
                            username |-> Prop("none", 3, 30)]]
      [] route \in {GetUser, HealthDetailed} ->
           \* no body schema
           [required |-> <<>>, properties |-> <<>>]

\* the status of the handler's answer: login and update return their payload
\* (200), register calls reply.code(201)
successCode(route) == IF route = Register THEN 201 ELSE 200

successMessage(route) ==
    CASE route = Login -> "Login functionality to be implemented"
      [] route = Register -> "User registered successfully"
      [] route = Update -> "User updated successfully"
      [] route = GetUser -> Undef

\* a string of n characters
Str(n) == [i \in 1..n |-> "a"]

\* the bodies sent: each property absent or one of its samples
EmailSamples == {<<"a", "@", "a", ".", "a">>, <<"a", "a">>, <<"a", "@">>}
UsernameSamples == {Str(2), Str(3), Str(30), Str(31)}
PasswordSamples == {Str(5), Str(6)}
\* the ids: of the path (/api/users/u1), and of an id property in a body
Ids == {<<"u", "1">>, <<"u", "2">>}

Samples(f) ==
    CASE f = "email" -> EmailSamples
      [] f = "username" -> UsernameSamples
      [] f = "password" -> PasswordSamples
      [] f = "id" -> Ids

Bodies ==
    UNION { { b \in [S -> EmailSamples \cup UsernameSamples \cup PasswordSamples \cup Ids] :
                \A f \in S : b[f] \in Samples(f) } :
            S \in SUBSET {"email", "username", "password", "id"} }

\* a request without a body
EmptyBody == [f \in {} |-> <<>>]

\* { id, ...body }: the properties of body are copied after id, so an id
\* property of the body replaces the id of the path
spread(id, body) ==
    [k \in {"id"} \cup DOMAIN body |-> IF k \in DOMAIN body THEN body[k] ELSE id]

\* the serialiser keeps the properties the response schema lists for user
\* (id, email and username are listed by both routes)
serializeUser(user) ==
    [k \in DOMAIN user \cap {"id", "email", "username"} |-> user[k]]

\* the payload the handler of the route answers with
payload(route, id, body) ==
    CASE route = Login -> [message |-> successMessage(route)]
      [] route = Register -> [message |-> successMessage(route)]
      [] route = Update -> [message |-> successMessage(route),
                            user |-> serializeUser(spread(id, body))]
      [] route = GetUser -> [user |-> serializeUser([id |-> id])]

\* one part of an address: atoms separated by single dots
dotAtoms(t) ==
    /\ Len(t) > 0
    /\ t[1] # "." /\ t[Len(t)] # "."
    /\ \A i \in 1..(Len(t) - 1) : ~(t[i] = "." /\ t[i + 1] = ".")

\* format: 'email' as the validator checks it: local part, one @, domain
isEmail(v) ==
    LET ats == {i \in DOMAIN v : v[i] = "@"} IN
      /\ Cardinality(ats) = 1
      /\ LET k == CHOOSE i \in ats : TRUE IN
           /\ dotAtoms(SubSeq(v, 1, k - 1))
           /\ dotAtoms(SubSeq(v, k + 1, Len(v)))

\* the keyword a value violates, "" if none
\* faulty variant: maxLength is not checked
failedKeyword_noMaxLength(p, v) ==
    IF Len(v) < p.minLength THEN "minLength"
    ELSE IF p.format = "email" /\ ~isEmail(v) THEN "format"
    ELSE ""

failedKeyword(p, v) ==
    IF Len(v) < p.minLength THEN "minLength"
    ELSE IF p.maxLength # NoMax /\ Len(v) > p.maxLength THEN "maxLength"
    ELSE IF p.format = "email" /\ ~isEmail(v) THEN "format"
    ELSE ""

\* an item of error.validation
ajvError(path, schemaPath, msg) ==
    [instancePath |-> path, schemaPath |-> schemaPath, message |-> msg,
     hasParams |-> TRUE, providedValue |-> Undef, allowedValues |-> Undef]

\* the errors of a body against a schema: the required properties it lacks,
\* then the properties that violate a keyword, in the order of the schema
PropertyOrder == <<"email", "username", "password">>

schemaErrors(schema, body) ==
    LET isMissing(f) == f \notin DOMAIN body
        isBad(f) == /\ f \in DOMAIN body
                    /\ f \in DOMAIN schema.properties
                    /\ failedKeyword(schema.properties[f], body[f]) # ""
        missing == SelectSeq(schema.required, isMissing)
        bad == SelectSeq(PropertyOrder, isBad)
    IN  [i \in 1..Len(missing) |->
            ajvError("", "#/required", <<"must have required property", missing[i]>>)]
        \o
        [i \in 1..Len(bad) |->
            ajvError(<<"/", bad[i]>>,
                     <<"#/properties", bad[i], failedKeyword(schema.properties[bad[i]], body[bad[i]])>>,
                     <<"must match", failedKeyword(schema.properties[bad[i]], body[bad[i]])>>)]

\* the validator stops at the first error (allErrors is off)
validateBody(schema, body) ==
    LET all == schemaErrors(schema, body) IN
      IF all = <<>> THEN <<>> ELSE <<Head(all)>>

\* the error the framework raises for a body that fails validation:
\* statusCode 400 and the validation list
validationError(errs) ==
    Err("body must match the schema", "Error: at wrapValidationError", TRUE, 400, TRUE, errs)

\* the framework routes an injected request and parses its body
inject(r) ==
    /\ pc[r] = "new"
    /\ \E route \in Routes, id \in Ids, b \in Bodies, db \in {"up", "down"} :
         /\ route \in {GetUser, HealthDetailed} => b = EmptyBody
         \* the auth routes and the health route have no path parameter
         /\ route \in {Login, Register, HealthDetailed} => id = <<"u", "1">>
         \* db: whether the database answers the probe of the health route
         /\ route # HealthDetailed => db = "up"
         /\ inbound' = [inbound EXCEPT ![r] =
                          [route |-> route, id |-> id, body |-> b, db |-> db]]
    /\ pc' = [pc EXCEPT ![r] = "onRequest"]
    /\ UNCHANGED <<processEnv, config, prisma, proc, env, clock, request, header, error, reply, log>>

\* the validation stage: the body is checked against the schema of the route
validation(r) ==
    /\ pc[r] = "handler"
    /\ inbound[r] # NoInbound
    /\ LET errs == validateBody(bodySchema(inbound[r].route), inbound[r].body) IN
         IF errs # <<>>
         THEN /\ error' = [error EXCEPT ![r] = validationError(errs)]
              /\ pc' = [pc EXCEPT ![r] = "onError"]
         ELSE /\ error' = error
              /\ pc' = [pc EXCEPT ![r] = "preHandler"]
    /\ UNCHANGED <<processEnv, config, prisma, proc, inbound, env, clock, request, header, reply, log>>

\* faulty variant: a failed probe is thrown to the error handler
healthDetailed_propagates(r) ==
    /\ pc[r] = "preHandler"
    /\ inbound[r].route = HealthDetailed
    /\ IF inbound[r].db = "up"
       THEN /\ \E start, end \in 1..MaxClock :
                 reply' = [reply EXCEPT ![r].body =
                             [status |-> "ok",
                              database |-> [status |-> "connected",
                                            responseTime |-> end - start]]]
            /\ prisma' = "connected"
            /\ pc' = [pc EXCEPT ![r] = "send"]
            /\ UNCHANGED <<error, log>>
       ELSE /\ error' = [error EXCEPT ![r] = Err("db down", Undef, FALSE, NoCode, FALSE, <<>>)]
            /\ pc' = [pc EXCEPT ![r] = "onError"]
            /\ UNCHANGED <<reply, log, prisma>>
    /\ UNCHANGED <<processEnv, config, proc, inbound, env, clock, request, header>>

(***************************************************************************)
(* GET /health/detailed: routes/health.ts:77-114.  The probe query is      *)
(* awaited inside try/catch; the handler returns its payload, so the       *)
(* status stays 200.                                                       *)
(***************************************************************************)
healthDetailed(r) ==
    /\ pc[r] = "preHandler"
    /\ inbound[r].route = HealthDetailed
    /\ IF inbound[r].db = "up"
       THEN \* Date.now() before and after the query; the client connects to
            \* the database with its first query
            /\ \E start, end \in 1..MaxClock :
                 reply' = [reply EXCEPT ![r].body =
                             [status |-> "ok",
                              database |-> [status |-> "connected",
                                            responseTime |-> end - start]]]
            /\ prisma' = "connected"
            /\ log' = log
       ELSE /\ reply' = [reply EXCEPT ![r].body =
                           [status |-> "ok",
                            database |-> [status |-> "disconnected",
                                          responseTime |-> 0]]]
            /\ prisma' = prisma
            /\ log' = Append(log, [level |-> "error",
                                   message |-> "Database health check failed",
                                   req |-> r])
    /\ pc' = [pc EXCEPT ![r] = "send"]
    /\ UNCHANGED <<processEnv, config, proc, inbound, env, clock, request, header, error>>

\* the handler of the route answers
routeHandler(r) ==
    /\ pc[r] = "preHandler"
    /\ inbound[r].route # HealthDetailed
    /\ LET route == inbound[r].route IN
         reply' = [reply EXCEPT ![r] =
                     [@ EXCEPT !.statusCode = successCode(route),
                               !.body = payload(route, inbound[r].id, inbound[r].body),
                               !.calls = IF route = Register
                                         THEN @ \o <<"reply.code", "reply.send">>
                                         ELSE @]]
    /\ pc' = [pc EXCEPT ![r] = "send"]
    /\ UNCHANGED <<processEnv, config, prisma, proc, inbound, env, clock, request, header, error, log>>

\* one request through the server
RouteInit ==
    /\ env \in NodeEnvs
    /\ clock = 1
    /\ pc = [r \in Reqs |-> IF r = 1 THEN "new" ELSE "done"]
    /\ request = [r \in Reqs |-> NewRequest]
    /\ header = [r \in Reqs |-> Undef]
    /\ error = [r \in Reqs |-> NoError]
    /\ reply = [r \in Reqs |-> NewReply]
    /\ log = <<>>
    /\ inbound = [r \in Reqs |-> NoInbound]
    /\ processEnv = EnvOf(env)
    /\ config = parseEnv(EnvOf(env))
    /\ prisma = "disconnected"
    /\ proc = Running

RouteNext ==
    \E r \in Reqs :
        \/ inject(r)
        \/ OutOfScope(r)
        \/ rateLimit(r)
        \/ validation(r)
        \/ routeHandler(r)
        \/ healthDetailed(r)
        \/ errorHandler(r)
        \/ Flush(r)

RouteSpec == RouteInit /\ [][RouteNext]_vars

(***************************************************************************)
(* Properties of the request lifecycle.                                    *)
(***************************************************************************)
IsIncoming(ev, r) == ev.message = "Incoming request" /\ ev.req = r
IsTerminal(ev, r) == ev.message \in {"Request completed", "Request failed"} /\ ev.req = r

\* C6: every response the server has sent carries an X-Request-ID header that
\* is present, non-empty and the correlation id of the request's context.
C6_XRequestId ==
    \A r \in Reqs :
      reply[r].flushed
        => /\ header[r] # Undef
           /\ header[r] # ""
           /\ header[r] = request[r].requestId

\* C7: every log event of a request carries a requestId field that is the
\* correlation id of that request.
C7_EveryEventCorrelated ==
    \A i \in DOMAIN log :
      /\ "requestId" \in DOMAIN log[i]
      /\ log[i].requestId = request[log[i].req].requestId

\* C9: in the sink, each 'Request completed' or 'Request failed' event of a
\* request comes after the 'Incoming request' event of the same request,
\* however the requests interleave.
C9_IncomingFirst ==
    \A i \in DOMAIN log :
      \A r \in Reqs :
        IsTerminal(log[i], r) => \E j \in 1..(i - 1) : IsIncoming(log[j], r)

\* two requests interleaved: the second arrives and ends while the first is
\* in flight
C9_Witness ==
    \E i, j, k, l \in DOMAIN log :
      /\ i < j /\ j < k /\ k < l
      /\ IsIncoming(log[i], 1) /\ IsIncoming(log[j], 2)
      /\ IsTerminal(log[k], 2) /\ IsTerminal(log[l], 1)

Count(r, m) == Cardinality({i \in DOMAIN log : log[i].req = r /\ log[i].message = m})

Invoked(r) == error[r] # NoError /\ pc[r] \in {"send", "onResponse", "done", "threw"}

IsReplyCall(c) == c \in {"reply.code", "reply.send"}

\* one error-level 'Request error' event, emitted before any call on the reply
LoggedOnceFirst(r) ==
    /\ Count(r, "Request error") = 1
    /\ \A i \in DOMAIN log :
         (log[i].req = r /\ log[i].message = "Request error") => log[i].level = "error"
    /\ Len(reply[r].calls) >= 1
    /\ reply[r].calls[1] = "logger.error"
    /\ \A i \in 2..Len(reply[r].calls) : reply[r].calls[i] # "logger.error"

\* C12: every invocation of errorHandler emits exactly one error-level
\* 'Request error' event, and emits it before the status code or the body of
\* the reply is set.
C12_LogBeforeReply == \A r \in Reqs : Invoked(r) => LoggedOnceFirst(r)

\* the same, for the thrown values that are objects: holds
C12_ObjectErrors ==
    \A r \in Reqs : (Invoked(r) /\ typeOf(error[r]) = "object") => LoggedOnceFirst(r)

\* C13: every invocation of errorHandler calls reply.code once and reply.send
\* once, code before send.
C13_CodeThenSend ==
    \A r \in Reqs :
      Invoked(r) => SelectSeq(reply[r].calls, IsReplyCall) = <<"reply.code", "reply.send">>

\* the same, for the thrown values that are objects: holds
C13_ObjectErrors ==
    \A r \in Reqs :
      (Invoked(r) /\ typeOf(error[r]) = "object")
        => SelectSeq(reply[r].calls, IsReplyCall) = <<"reply.code", "reply.send">>

\* C14: errorHandler never throws, whatever value it receives.
C14_NeverThrows == \A r \in Reqs : pc[r] # "threw"

\* the events that report a duration
HasDuration(ev) == ev.message \in {"Request completed", "Request failed"}

\* C15: the duration reported in a 'Request completed' or 'Request failed'
\* event is never negative, whatever the clock returns between the hooks.
C15_DurationNonNegative ==
    \A i \in DOMAIN log : HasDuration(log[i]) => log[i].duration[1] >= 0

\* C16: every body sent by errorHandler has an error field and a message
\* field that are defined, non-empty strings, for every classification and
\* every error message; details is present only on the validation branch.
C16_EnvelopeComplete ==
    \A r \in Reqs : Handled(r) =>
        /\ Truthy(reply[r].body.error)
        /\ Truthy(reply[r].body.message)
        /\ reply[r].body.hasDetails => isValidationError(error[r])

\* the part of C16 that holds: outside the 400 case of the switch the two
\* fields are non-empty, and details goes with the validation branch
C16_OutsideBadRequest ==
    \A r \in Reqs : Handled(r) =>
        /\ Truthy(reply[r].body.error)
        /\ (isValidationError(error[r]) \/ ~isTagged(error[r]) \/ error[r].statusCode # 400)
               => Truthy(reply[r].body.message)
        /\ reply[r].body.hasDetails <=> isValidationError(error[r])

\* the keys of the JSON body: a key whose value is undefined is not serialised
Keys(b) ==
    {"error"} \cup (IF b.message # Undef THEN {"message"} ELSE {})
              \cup (IF b.hasDetails THEN {"details"} ELSE {})

Traced(r) == pc[r] \notin {"new", "onRequest"}

\* C18: the correlation ids assigned by the onRequest hook are pairwise
\* different, and none is the empty string.
C18_UniqueNonEmpty ==
    /\ \A r \in Reqs : Traced(r) => request[r].requestId # ""
    /\ \A r1, r2 \in Reqs :
           (r1 # r2 /\ Traced(r1) /\ Traced(r2)) =>
               request[r1].requestId # request[r2].requestId

\* what the hook does guarantee: the id is a string of at most 9 characters
\* cut from the draw, stored in the request and copied to the header
C18_IdFromDraw ==
    \A r \in Reqs : Traced(r) =>
        /\ request[r].requestId \in {substr_2_9(x) : x \in MathRandom}
        /\ header[r] = request[r].requestId

\* C19: a step of one of the three tracer hooks leaves the status code, the
\* body and the error of every response unchanged; onRequest changes only
\* requestId, startTime and the X-Request-ID header of its own request, and
\* onResponse and onError change neither the request context nor the header.
C19_HooksFrame ==
    [][\A r \in Reqs :
          /\ (onRequest(r) \/ onResponse(r) \/ onError(r)) =>
                 /\ reply' = reply
                 /\ error' = error
                 /\ \A q \in Reqs \ {r} :
                        request'[q] = request[q] /\ header'[q] = header[q]
          /\ (onResponse(r) \/ onError(r)) =>
                 /\ request' = request
                 /\ header' = header]_vars

\* the three hooks have run for a failed request, and the response carries
\* the status and body chosen by errorHandler
C19_Witness ==
    \E r \in Reqs :
        /\ pc[r] = "done"
        /\ error[r] # NoError
        /\ request[r].requestId # Undef
        /\ \E i \in DOMAIN log : log[i].req = r /\ log[i].message = "Request failed"
        /\ \E i \in DOMAIN log : log[i].req = r /\ log[i].message = "Request completed"
        /\ reply[r].statusCode = errorReply(error[r], env).code
        /\ reply[r].body = errorReply(error[r], env).body

(***************************************************************************)
(* Properties of the routes.                                               *)
(***************************************************************************)
\* the server has answered the routed request r
Answered(r) == inbound[r] # NoInbound /\ pc[r] \in {"send", "onResponse", "done"}

\* the body violates the schema of the route: a required property missing, a
\* password shorter than 6, a username shorter than 3 or longer than 30, a
\* malformed email
BreaksSchema(route, b) ==
    \/ route \in {Login, Register} /\ ("email" \notin DOMAIN b \/ "password" \notin DOMAIN b)
    \/ route = Register /\ "username" \notin DOMAIN b
    \/ route \in {Login, Register} /\ "password" \in DOMAIN b /\ Len(b.password) < 6
    \/ route \in {Register, Update} /\ "username" \in DOMAIN b
          /\ (Len(b.username) < 3 \/ Len(b.username) > 30)
    \/ "email" \in DOMAIN b /\ ~isEmail(b.email)

\* the response is the success response of the route's handler
IsSuccess(r) ==
    /\ reply[r].statusCode = IF inbound[r].route = Register THEN 201 ELSE 200
    /\ "error" \notin DOMAIN reply[r].body

\* 400 for a body that violates the schema, the handler's success otherwise
SchemaGate(r) ==
    IF BreaksSchema(inbound[r].route, inbound[r].body)
    THEN reply[r].statusCode = 400 /\ ~IsSuccess(r)
    ELSE IsSuccess(r)

\* C20 as stated: a request to one of the three routes whose body violates
\* the schema always gets 400, and one whose body satisfies it gets 200 or 201.
C20_Original == \A r \in Reqs : Answered(r) => SchemaGate(r)

\* C20: a request that the rate limiter lets through gets 400 and never the
\* success response when its body violates the schema of the route, and 200
\* (login, update) or 201 (register) when the body satisfies it; a request the
\* rate limiter rejects gets 429 whatever its body.
C20_SchemaGate ==
    \A r \in Reqs : Answered(r) =>
        IF error[r] = RateLimitError
        THEN reply[r].statusCode = 429
        ELSE SchemaGate(r)

\* an update with a username of 31 characters has been answered with 400 and
\* the validation envelope
C20_Witness ==
    \E r \in Reqs :
        /\ pc[r] = "done"
        /\ inbound[r] # NoInbound
        /\ inbound[r].route = Update
        /\ "username" \in DOMAIN inbound[r].body
        /\ Len(inbound[r].body.username) = 31
        /\ reply[r].statusCode = 400
        /\ reply[r].body.error = "Validation Error"

\* C21: for GET and PATCH /api/users/:id the user.id of the success response
\* equals the id of the path, whatever the body.
C21_UserIdIsPathId ==
    \A r \in Reqs :
        (Answered(r) /\ inbound[r].route \in {GetUser, Update} /\ IsSuccess(r)) =>
            reply[r].body.user.id = inbound[r].id

\* the part of C21 that holds: GET always, PATCH when the body has no id
C21_WithoutBodyId ==
    \A r \in Reqs :
        (Answered(r) /\ inbound[r].route \in {GetUser, Update} /\ IsSuccess(r)
           /\ "id" \notin DOMAIN inbound[r].body) =>
            reply[r].body.user.id = inbound[r].id

\* C22: an error whose validation list is empty is not answered with the
\* 'Validation Error' envelope.
C22_EmptyListNotValidation ==
    \A r \in Reqs :
        (Handled(r) /\ error[r].validation = <<>>) =>
            reply[r].body.error # "Validation Error"

\* C23: on the validation branch details has the length and order of the
\* validation list; entry i has the instancePath of problem i as field, or its
\* schemaPath when the instancePath is empty, the message of problem i, and
\* its params.providedValue and params.allowedValues, absent without params.
C23_DetailsMirrorProblems ==
    \A r \in Reqs :
        (Handled(r) /\ isValidationError(error[r])) =>
            LET problems == error[r].validation
                details  == reply[r].body.details IN
              /\ reply[r].body.hasDetails
              /\ Len(details) = Len(problems)
              /\ \A i \in 1..Len(problems) :
                    /\ details[i].field =
                          IF problems[i].instancePath \notin {Undef, ""}
                          THEN problems[i].instancePath
                          ELSE problems[i].schemaPath
                    /\ details[i].message = problems[i].message
                    /\ details[i].provided =
                          IF problems[i].hasParams THEN problems[i].providedValue ELSE Undef
                    /\ details[i].expected =
                          IF problems[i].hasParams THEN problems[i].allowedValues ELSE Undef

\* a list of two problems, one without instancePath and params, was answered
C23_Witness ==
    \E r \in Reqs :
        /\ Handled(r)
        /\ error[r].validation = <<P2, P3>>
        /\ Len(reply[r].body.details) = 2
        /\ reply[r].body.details[1].field = "#/required"
        /\ reply[r].body.details[2].provided = "root"

\* C24: whatever the interleaving of the hooks of the requests in flight, the
\* requestId of a request's 'Request completed' or 'Request failed' event is
\* the requestId of the same request's 'Incoming request' event, and the
\* context of a request holds the id its own onRequest hook gave it.
C24_OwnContext ==
    \A r \in Reqs :
        \A i \in DOMAIN log :
            IsIncoming(log[i], r) =>
                /\ request[r].requestId = log[i].requestId
                /\ \A j \in DOMAIN log :
                       IsTerminal(log[j], r) => log[j].requestId = log[i].requestId

\* two requests with different ids were in flight together: the second one
\* arrived between the 'Incoming request' and the terminal event of the first
C24_Witness ==
    \E r1, r2 \in Reqs :
        /\ r1 # r2
        /\ request[r1].requestId # request[r2].requestId
        /\ \E i, j, k \in DOMAIN log :
              /\ i < j /\ j < k
              /\ IsIncoming(log[i], r1)
              /\ IsIncoming(log[j], r2)
              /\ IsTerminal(log[k], r1)

(***************************************************************************)
(* errorHandler under fairness: the framework calls the error handler of a *)
(* request that is waiting for it, and the handler runs to its end (it is  *)
(* synchronous code without loops).                                        *)
(***************************************************************************)
HandlerLive == HandlerInit /\ [][HandlerNext]_vars /\ \A r \in Reqs : WF_vars(errorHandler(r))

\* errorHandler has called reply.send exactly once for request r
SentOnce(r) ==
    /\ pc[r] \in {"send", "onResponse", "done"}
    /\ Cardinality({i \in DOMAIN reply[r].calls : reply[r].calls[i] = "reply.send"}) = 1

\* C25: from any error, errorHandler reaches exactly one reply.send.
C25_EventuallySent ==
    \A r \in Reqs : (pc[r] = "errorHandler") ~> SentOnce(r)

\* the part of C25 that holds: from any error object
C25_ObjectErrors ==
    \A r \in Reqs :
        (pc[r] = "errorHandler" /\ typeOf(error[r]) = "object") ~> SentOnce(r)

\* the failure of the probe of request r is in the log
ProbeFailureLogged(r) ==
    \E i \in DOMAIN log :
        log[i].req = r /\ log[i].message = "Database health check failed"

\* what the handler of GET /health/detailed answers
HealthAnswer(r) ==
    /\ reply[r].statusCode = 200
    /\ error[r] = NoError
    /\ reply[r].body.status = "ok"
    /\ reply[r].body.database.status = "connected" <=> inbound[r].db = "up"
    /\ inbound[r].db = "down" =>
          /\ reply[r].body.database = [status |-> "disconnected", responseTime |-> 0]
          /\ ProbeFailureLogged(r)

\* C26 as stated: GET /health/detailed always answers 200 with status 'ok',
\* database.status following the probe.
C26_Original ==
    \A r \in Reqs :
        (Answered(r) /\ inbound[r].route = HealthDetailed) => HealthAnswer(r)

\* C26: a request to GET /health/detailed that reaches its handler is answered
\* 200 with status 'ok' whether the probe succeeds or fails; database.status
\* is 'connected' exactly when the probe succeeded, and a failed probe gives
\* 'disconnected' with responseTime 0 and a log event, not an error response.
\* A request the rate limiter rejects is answered 429.
C26_HealthDetailed ==
    \A r \in Reqs :
        (Answered(r) /\ inbound[r].route = HealthDetailed) =>
            IF error[r] = RateLimitError
            THEN reply[r].statusCode = 429
            ELSE HealthAnswer(r)

\* the probe failed and the request was answered 200, 'disconnected'
C26_Witness ==
    \E r \in Reqs :
        /\ pc[r] = "done"
        /\ inbound[r] # NoInbound
        /\ inbound[r].route = HealthDetailed
        /\ inbound[r].db = "down"
        /\ reply[r].statusCode = 200
        /\ reply[r].body.database.status = "disconnected"
        /\ ProbeFailureLogged(r)

(***************************************************************************)
(* Loading the config module: config/index.ts:40-57.  The process starts   *)
(* with some environment; importing the module parses it once.             *)
(***************************************************************************)
ConfigInit ==
    /\ processEnv \in ProcessEnvs
    /\ config = NotLoaded
    \* config.NODE_ENV does not exist before the load; the default stands for it
    /\ env = "development"
    /\ clock = 1
    /\ pc = [r \in Reqs |-> "new"]
    /\ request = [r \in Reqs |-> NewRequest]
    /\ header = [r \in Reqs |-> Undef]
    /\ error = [r \in Reqs |-> NoError]
    /\ reply = [r \in Reqs |-> NewReply]
    /\ log = <<>>
    /\ inbound = [r \in Reqs |-> NoInbound]
    /\ prisma = "disconnected"
    /\ proc = Running

loadConfig ==
    /\ config = NotLoaded
    /\ config' = parseEnv(processEnv)
    /\ env' = IF config'.status = "loaded" THEN config'.NODE_ENV ELSE env
    /\ UNCHANGED <<processEnv, prisma, proc, inbound, clock, pc, request, header, error, reply, log>>

ConfigNext == loadConfig

ConfigSpec == ConfigInit /\ [][ConfigNext]_vars

\* a number greater than 0
Positive(n) == ~n.nan /\ n.value > 0

\* C27: every config object that was produced has PORT,
\* RATE_LIMIT_MAX_REQUESTS and RATE_LIMIT_WINDOW_MS greater than 0 (an
\* environment with a zero or negative value is rejected at load).
C27_PositiveNumbers ==
    config.status = "loaded" =>
        /\ Positive(config.PORT)
        /\ Positive(config.RATE_LIMIT_MAX_REQUESTS)
        /\ Positive(config.RATE_LIMIT_WINDOW_MS)

\* the part of C27 that holds: with the three variables not set, the defaults
\* 3000, 100 and 900000 are loaded
C27_Defaults ==
    (/\ config.status = "loaded"
     /\ processEnv.PORT = Unset
     /\ processEnv.RATE_LIMIT_MAX_REQUESTS = Unset
     /\ processEnv.RATE_LIMIT_WINDOW_MS = Unset) =>
        /\ config.PORT = Num(3000)
        /\ config.RATE_LIMIT_MAX_REQUESTS = Num(100)
        /\ config.RATE_LIMIT_WINDOW_MS = Num(900000)

\* C28: the status code set by errorHandler is an HTTP error status, in
\* 400..599, for every error it receives.
C28_ErrorStatusRange ==
    \A r \in Reqs : Handled(r) => reply[r].statusCode \in 400..599

\* the part of C28 that holds: a statusCode that is 0 or missing gives 500,
\* and the validation branch and the recognised codes give their own status
C28_FalsyOrRecognised ==
    \A r \in Reqs :
        (/\ Handled(r)
         /\ \/ isValidationError(error[r])
            \/ ~isTagged(error[r])
            \/ error[r].statusCode = 0
            \/ error[r].statusCode \in SpecCodes) =>
            reply[r].statusCode \in 400..599

(***************************************************************************)
(* process.env is changed while the server runs.  The config object was    *)
(* built when the config module was loaded (config/index.ts:40-57), and    *)
(* errorHandler reads config.NODE_ENV (part_000:109).                      *)
(***************************************************************************)
\* the same error is raised for every request; the error handler is about to
\* be called for each of them
EnvChangeInit ==
    /\ env \in NodeEnvs
    /\ clock = 1
    /\ pc = [r \in Reqs |-> "errorHandler"]
    /\ request = [r \in Reqs |-> NewRequest]
    /\ header = [r \in Reqs |-> Undef]
    /\ error \in {[r \in Reqs |-> e] : e \in {x \in CustomError : ~x.hasValidation}}
    /\ reply = [r \in Reqs |-> NewReply]
    /\ log = <<>>
    /\ inbound = [r \in Reqs |-> NoInbound]
    /\ processEnv = EnvOf(env)
    /\ config = parseEnv(EnvOf(env))
    /\ prisma = "disconnected"
    /\ proc = Running

\* process.env.NODE_ENV = v, between two invocations of errorHandler
setNodeEnv ==
    /\ \E r \in Reqs : pc[r] = "send"
    /\ \E r \in Reqs : pc[r] = "errorHandler"
    /\ \E v \in NodeEnvs :
         /\ v # processEnv.NODE_ENV
         /\ processEnv' = [processEnv EXCEPT !.NODE_ENV = v]
    /\ UNCHANGED <<config, prisma, proc, inbound, env, clock, pc, request, header, error, reply, log>>

EnvChangeNext ==
    \/ setNodeEnv
    \/ \E r \in Reqs : errorHandler(r)

EnvChangeSpec == EnvChangeInit /\ [][EnvChangeNext]_vars

\* C29: two invocations of errorHandler for the same error send the same
\* message, also when process.env.NODE_ENV was changed between them; the
\* message is masked exactly when the NODE_ENV loaded into config is
\* 'production'.
C29_ConfigDecidesMask ==
    \A r1, r2 \in Reqs :
        (Handled(r1) /\ Handled(r2)) =>
            /\ reply[r1].body.message = reply[r2].body.message
            /\ (Reaches500Branch(error[r1]) /\ config.NODE_ENV = "production")
                   => reply[r1].body.message = "Something went wrong"

\* a 500-branch error was answered twice with its own message, and
\* process.env.NODE_ENV was set to 'production' between the two invocations
C29_Witness ==
    /\ Handled(1) /\ Handled(2)
    /\ Reaches500Branch(error[1])
    /\ config.NODE_ENV = "development"
    /\ processEnv.NODE_ENV = "production"
    /\ reply[1].body.message = "db down"
    /\ reply[2].body.message = "db down"

(***************************************************************************)
(* Shutdown: server.ts, the SIGINT and SIGTERM handlers (lines 559-570 of  *)
(* DEVELOPMENT_WORKFLOW.md), and the onClose hook of healthRoutes          *)
(* (health.ts:118-120).  app.close() puts its callback at the end of the   *)
(* close queue of the application; the queue runs the onClose hooks one at *)
(* a time, once, after the requests in flight have completed, and then the *)
(* callbacks.  A server that is closing accepts no new request.            *)
(***************************************************************************)
Signals == 1..MaxSignals

\* a signal arrives: the handler logs and calls app.close()
signal(k) ==
    /\ proc.exitCode = NoExit
    /\ proc.handler[k] = "idle"
    /\ log' = Append(log, [level |-> "info",
                           message |-> "signal received, shutting down gracefully...",
                           req |-> 0])
    /\ proc' = [proc EXCEPT !.handler[k] = IF proc.app = "closing" THEN "queued" ELSE "awaitClose",
                            !.app = IF @ = "open" THEN "closing" ELSE @]
    /\ UNCHANGED <<processEnv, config, prisma, inbound, env, clock, pc, request, header, error, reply>>

\* no request is being handled
Quiescent == \A r \in Reqs : pc[r] \in {"new", "done", "threw"}

\* the onClose hook: await prisma.$disconnect()
onClose ==
    /\ proc.exitCode = NoExit
    /\ proc.app = "closing"
    /\ Quiescent
    /\ prisma' = "disconnected"
    /\ proc' = [proc EXCEPT !.app = "closed"]
    /\ UNCHANGED <<processEnv, config, inbound, env, clock, pc, request, header, error, reply, log>>

\* prisma.$disconnect() rejects: app.close() rejects for its callers
onCloseFails ==
    /\ proc.exitCode = NoExit
    /\ proc.app = "closing"
    /\ Quiescent
    /\ proc' = [proc EXCEPT !.app = "failed"]
    /\ UNCHANGED <<processEnv, config, prisma, inbound, env, clock, pc, request, header, error, reply, log>>

\* faulty variant: process.exit(0) without awaiting app.close()
processExit_noAwait(k) ==
    /\ proc.exitCode = NoExit
    /\ proc.handler[k] \in {"awaitClose", "queued"}
    /\ proc' = [proc EXCEPT !.exitCode = 0]
    /\ UNCHANGED <<processEnv, config, prisma, inbound, env, clock, pc, request, header, error, reply, log>>

\* await app.close() has resolved: process.exit(0)
processExit(k) ==
    /\ proc.exitCode = NoExit
    /\ proc.handler[k] \in {"awaitClose", "queued"}
    /\ proc.app = "closed"
    /\ proc' = [proc EXCEPT !.exitCode = 0]
    /\ UNCHANGED <<processEnv, config, prisma, inbound, env, clock, pc, request, header, error, reply, log>>

\* await app.close() has rejected inside the async handler: the
\* unhandledRejection handler logs and calls process.exit(1)
unhandledRejection(k) ==
    /\ proc.exitCode = NoExit
    /\ proc.handler[k] \in {"awaitClose", "queued"}
    /\ proc.app = "failed"
    /\ log' = Append(log, [level |-> "error", message |-> "Unhandled Rejection at:", req |-> 0])
    /\ proc' = [proc EXCEPT !.exitCode = 1]
    /\ UNCHANGED <<processEnv, config, prisma, inbound, env, clock, pc, request, header, error, reply>>

ShutdownNext ==
    \/ /\ proc.exitCode = NoExit
       /\ proc.app = "open"
       /\ \E r \in Reqs : inject(r)
    \/ /\ proc.exitCode = NoExit
       /\ \E r \in Reqs :
            \/ OutOfScope(r)
            \/ rateLimit(r)
            \/ validation(r)
            \/ routeHandler(r)
            \/ healthDetailed(r)
            \/ errorHandler(r)
            \/ Flush(r)
    \/ \E k \in Signals : signal(k)
    \/ onClose
    \/ onCloseFails
    \/ \E k \in Signals : processExit(k)
    \/ \E k \in Signals : unhandledRejection(k)

ShutdownSpec == RouteInit /\ [][ShutdownNext]_vars

\* C30: the process exits with code 0 only after app.close() has completed
\* and its onClose hook has disconnected the database client, whatever the
\* number of signals received and whenever they arrive.
C30_ExitAfterClose ==
    proc.exitCode = 0 => (proc.app = "closed" /\ prisma = "disconnected")

\* the database client was connected by a health probe, a second signal
\* arrived while the first close was in progress, and the process has exited
\* with code 0
C30_Witness ==
    /\ proc.exitCode = 0
    /\ \E k \in Signals : proc.handler[k] = "queued"
    /\ \E r \in Reqs :
          /\ pc[r] = "done"
          /\ inbound[r] # NoInbound
          /\ inbound[r].route = HealthDetailed
          /\ reply[r].body.database.status = "connected"

====
